---------------------------- MODULE Spec2Model ----------------------------
(***************************************************************************)
(* Water-ATM dispense controller (FAINA-TECH/updateatm).                   *)
(*                                                                         *)
(* The controller thread (main.py monitor_loop) runs Recovery once         *)
(* (check_for_interrupted_jobs) and then loops over the command queue      *)
(* (process_command_queue) and the idle poll (read_meter_only).  Both      *)
(* Recovery and the queue call the blocking dispense_batch of meter.py,    *)
(* which persists its target through meter_storage.py.  The MQTT thread    *)
(* (meter_mqtts.py datacb) appends commands to CMD_QUEUE.                  *)
(*                                                                         *)
(* One action is one step of the controller between two serial-bus or      *)
(* flash operations, so that a power cycle can fall between any two of     *)
(* them.  The environment is the meter (its cumulative counter never       *)
(* decreases; a read may return absent, or the UART driver may raise       *)
(* while the response is awaited), the MQTT producer and the power supply. *)
(* Valve commands are best effort (their acknowledgement is discarded).    *)
(* The flash file system is taken to work: save_target_reading and         *)
(* load_target_reading do not hit their except branches.                   *)
(***************************************************************************)
EXTENDS Integers, Sequences, FiniteSets, TLC

\* ---------------------------------------------------------------- bounds
MaxVol == 2       \* the meter's cumulative counter ranges over 0..MaxVol
MaxLitres == 2    \* litres of a queued command range over 0..MaxLitres
MaxQueue == 2     \* QueueSpec: commands waiting in CMD_QUEUE at a time
MaxLen == 2       \* CrcSpec: bytes handed to calculate_crc

\* ------------------------------------------------------ program constants
None == -1              \* Python's None: an absent reading, record or field
Exc == -2               \* a call that ended by raising instead of returning
retries == 5            \* get_valid_volume(uart, address, retries=5, delay=1)
max_errors == 5         \* dispense_batch: max_errors = 5
SLAVE_ADDRESSES == <<1, 2>>
HungLimit == 1200       \* supervisor_thread: (time() - last_alive_tick) < 1200
PollInterval == 5       \* supervisor_thread: sleep(5)
WdtTimeout == 15        \* machine.WDT(True): the fixed hardware timeout, in s
CrcStart == 65535       \* calculate_crc: crc = 0xFFFF
CrcPoly == 40961        \* calculate_crc: crc ^= 0xA001

Addrs == {SLAVE_ADDRESSES[i] : i \in 1..Len(SLAVE_ADDRESSES)}

VARIABLES
    store,      \* /flash/mem/target_<addr>.json : address -> value or None
    flow,       \* the meter's cumulative counter, per address
    valve,      \* last valve command each unit received: "open" / "closed"
    CMD_QUEUE,  \* globals.CMD_QUEUE
    pc,         \* the controller thread's position
    ri,         \* check_for_interrupted_jobs: index of addr in SLAVE_ADDRESSES
    saved_target,       \* check_for_interrupted_jobs: saved_target
    rec_vol,            \* check_for_interrupted_jobs: current_vol
    caller,     \* who called dispense_batch: "recovery" / "queue" / "none"
    address,    \* dispense_batch: address
    liters_to_dispense,
    start_vol, target_vol, last_vol, current_vol, consecutive_errors,
    result,     \* the dict dispense_batch returned
    \* history of the current unit of work (one Recovery iteration, one
    \* queued command), kept for the properties only:
    log,        \* the saves and valve commands issued, in order
    rd,         \* what the last meter read of Recovery / dispense_batch gave
    sawAbsent,  \* a read of the current dispense_batch run returned None
    absentRun,  \* absent monitoring polls in a row, as the meter gave them
    reports,    \* the reports process_command_queue published for its item
    arrived,    \* history: the commands appended and not yet popped, in order
    tick_age,   \* time() - last_alive_tick, in s (AgeCap stands for more)
    wdt_age,    \* s since the hardware watchdog was enabled or fed last
    hung,       \* the supervisor's last poll took its "System HUNG" branch
    stepped,    \* history: the controller took a step since HealthyPoll
    \* the bench on which the functions of meter.py and meter_storage.py are
    \* exercised one call at a time:
    data,       \* the argument of the call: the bytes handed to
                \* calculate_crc, <<value>> for save_target_reading
    wire,       \* the frame on the line: what smart_read_modbus returns
                \* (<<>> for no bytes and for None: the code tests its truth)
    line,       \* what the serial line did with the frame
    req,        \* the address argument of the call
    ret,        \* <<v>> once the call on the bench has returned v
    flash       \* the directories and the files under /flash, by name

persist == <<store, flow, valve>>
rec == <<ri, saved_target, rec_vol>>
frame == <<caller, address, liters_to_dispense, start_vol, target_vol,
           last_vol, current_vol, consecutive_errors, result>>
hist == <<log, rd, sawAbsent, absentRun>>
cmd == <<reports, arrived>>
sup == <<tick_age, wdt_age, hung>>
bench == <<data, wire, line, req, ret, flash>>

vars == <<store, flow, valve, CMD_QUEUE, pc, ri, saved_target, rec_vol,
          caller, address, liters_to_dispense, start_vol, target_vol,
          last_vol, current_vol, consecutive_errors, result, log, rd,
          sawAbsent, absentRun, reports, arrived, tick_age, wdt_age,
          hung, stepped, data, wire, line, req, ret, flash>>

NoResult == [status |-> "none", reason |-> "none", dispensed |-> None,
             final_reading |-> None]

\* ------------------------------------------------------- meter_storage.py
save_target_reading(st, a, value) == [st EXCEPT ![a] = value]

load_target_reading(st, a) == st[a]

\* ---------------------------------------------------------------- meter.py
\* What one read_cumulative_flow(uart, a) can produce: absent, a reading not
\* below the last one seen, or an exception of the UART driver.
ReadOutcomes(a) == {None, Exc} \cup (flow[a]..MaxVol)

\* The readings a get_valid_volume call consumes: k absent reads, then r.
ReadSeq(k, r) == [i \in 1..retries |-> IF i <= k THEN None ELSE r]

RECURSIVE FirstValid(_, _)
FirstValid(rs, attempt) ==
    IF attempt > Len(rs) THEN None
    ELSE IF rs[attempt] # None THEN rs[attempt]
    ELSE FirstValid(rs, attempt + 1)

get_valid_volume(rs) == FirstValid(rs, 1)

\* The events a valve command and a save leave in the unit's log.
Ev(op, a, v) == [op |-> op, a |-> a, v |-> v]

open_valve(a) ==
    /\ valve' = [valve EXCEPT ![a] = "open"]
    /\ log' = Append(log, Ev("open", a, 0))

close_valve(a) ==
    /\ valve' = [valve EXCEPT ![a] = "closed"]
    /\ log' = Append(log, Ev("close", a, 0))

Save(a, value) ==
    /\ store' = save_target_reading(store, a, value)
    /\ log' = Append(log, Ev("save", a, value))

\* The meter counter after a call that returned v (absent and a raise tell
\* nothing about it).
Seen(a, v) == IF v >= 0 THEN [flow EXCEPT ![a] = v] ELSE flow

\* ------------------------------------------------------------ commands
\* What datacb can append: the kinds the controller dispatches on, for a
\* configured address; litres is None when the payload carried none.
Commands ==
    [type : {"success"}, addr : Addrs, litres : (0..MaxLitres) \cup {None}]
    \cup [type : {"valve_open", "valve_close"}, addr : Addrs, litres : {None}]

\* ---------------------------------------------------------------- Init
\* A new device at its first boot: no target file, valves closed.
AtBoot ==
    /\ store = [a \in Addrs |-> None]
    /\ flow = [a \in Addrs |-> 0]
    /\ valve = [a \in Addrs |-> "closed"]
    /\ CMD_QUEUE = <<>>
    /\ pc = "boot"
    /\ ri = 1
    /\ saved_target = None
    /\ rec_vol = None
    /\ caller = "none"
    /\ address = None
    /\ liters_to_dispense = None
    /\ start_vol = None
    /\ target_vol = None
    /\ last_vol = None
    /\ current_vol = None
    /\ consecutive_errors = 0
    /\ result = NoResult
    /\ log = <<>>
    /\ rd = None
    /\ sawAbsent = FALSE
    /\ absentRun = 0
    /\ reports = <<>>
    /\ arrived = <<>>
    /\ tick_age = 0
    /\ wdt_age = 0
    /\ hung = FALSE
    /\ stepped = TRUE

\* A flash file system without the directory of the targets.
NoFiles == [dirs |-> {}, files |-> <<>>]

\* Nothing is on the bench.
BenchIdle ==
    /\ data = <<>>
    /\ wire = <<>>
    /\ line = "idle"
    /\ req = None
    /\ ret = <<>>
    /\ flash = NoFiles

Init == AtBoot /\ BenchIdle

\* A step of the controller thread, as the supervisor's schedule and the
\* bench see it.
CtlStep ==
    /\ stepped' = TRUE
    /\ UNCHANGED bench

\* The frame of dispense_batch is gone.
ClearFrame ==
    /\ caller' = "none"
    /\ address' = None
    /\ liters_to_dispense' = None
    /\ start_vol' = None
    /\ target_vol' = None
    /\ last_vol' = None
    /\ current_vol' = None
    /\ consecutive_errors' = 0
    /\ result' = NoResult
    /\ sawAbsent' = FALSE
    /\ absentRun' = 0

\* The frame of check_for_interrupted_jobs is gone.
ClearRec ==
    /\ ri' = 1
    /\ saved_target' = None
    /\ rec_vol' = None

\* --------------------------------------------------- main.py monitor_loop
\* Mutant: the loop starts without the Recovery pass.
Boot_SkipRecovery ==
    /\ pc = "boot"
    /\ pc' = "loop"
    /\ UNCHANGED <<persist, CMD_QUEUE, rec, frame, hist, cmd, sup>>
    /\ CtlStep

\* monitor_loop up to its call of check_for_interrupted_jobs.
Boot ==
    /\ pc = "boot"
    /\ pc' = "rec_load"
    /\ UNCHANGED <<persist, CMD_QUEUE, rec, frame, hist>>
    /\ UNCHANGED <<cmd, sup>>
    /\ CtlStep

\* ------------------------------------- main.py check_for_interrupted_jobs
RecAddr == SLAVE_ADDRESSES[ri]

\* Mutant: `>=` for `>`, a batch with nothing left is resumed.
NeedsResume_Ge(target, current) == target >= current

\* if saved_target > current_vol
NeedsResume(target, current) == target > current

\* Mutant: the whole target is dispensed again.
Remaining_Full(target, current) == target

\* remaining = saved_target - current_vol
Remaining(target, current) == target - current

\* Mutant: the try wraps the for loop, a fault ends Recovery.
RecNext_Abort ==
    /\ ri' = ri
    /\ pc' = "loop"
    /\ ClearFrame

\* The end of one pass of the for body (its last statement, `continue`, or
\* its except branch): on to the next address.
RecNext ==
    /\ ri' = ri + 1
    /\ pc' = "rec_load"
    /\ ClearFrame

\* for addr in SLAVE_ADDRESSES: saved_target = load_target_reading(addr);
\* the list exhausted, check_for_interrupted_jobs returns to monitor_loop.
RecLoad ==
    /\ pc = "rec_load"
    /\ IF ri > Len(SLAVE_ADDRESSES)
       THEN /\ pc' = "loop"
            /\ ClearRec
            /\ log' = <<>>
            /\ rd' = None
       ELSE /\ saved_target' = load_target_reading(store, RecAddr)
            /\ rec_vol' = None
            /\ pc' = IF saved_target' = None THEN "rec_init" ELSE "rec_check"
            /\ log' = <<>>
            /\ UNCHANGED <<ri, rd>>
    /\ UNCHANGED <<persist, CMD_QUEUE, frame, sawAbsent, absentRun>>
    /\ UNCHANGED <<cmd, sup>>
    /\ CtlStep

\* Mutant: an unreadable meter is initialised to a target of 0.
RecInit_SaveZero ==
    /\ pc = "rec_init"
    /\ \E k \in 0..retries, r \in ReadOutcomes(RecAddr) :
         LET v == get_valid_volume(ReadSeq(k, r)) IN
         /\ flow' = Seen(RecAddr, v)
         /\ rd' = v
         /\ rec_vol' = IF v = Exc THEN rec_vol ELSE v
         /\ IF v = Exc
            THEN UNCHANGED <<store, log>>
            ELSE Save(RecAddr, IF v >= 0 THEN v ELSE 0)
    /\ RecNext
    /\ UNCHANGED <<valve, CMD_QUEUE, saved_target>>
    /\ UNCHANGED <<cmd, sup>>
    /\ CtlStep

\* AUTO-INITIALIZATION: no saved state, read the meter and save the reading.
RecInit ==
    /\ pc = "rec_init"
    /\ \E k \in 0..retries, r \in ReadOutcomes(RecAddr) :
         LET v == get_valid_volume(ReadSeq(k, r)) IN
         /\ flow' = Seen(RecAddr, v)
         /\ rd' = v
         /\ rec_vol' = IF v = Exc THEN rec_vol ELSE v
         /\ IF v >= 0
            THEN Save(RecAddr, v)
            ELSE UNCHANGED <<store, log>>
    /\ RecNext
    /\ UNCHANGED <<valve, CMD_QUEUE, saved_target>>
    /\ UNCHANGED <<cmd, sup>>
    /\ CtlStep

\* RECOVERY CHECK: read the meter; resume the batch when target > current.
RecCheck ==
    /\ pc = "rec_check"
    /\ \E k \in 0..retries, r \in ReadOutcomes(RecAddr) :
         LET v == get_valid_volume(ReadSeq(k, r)) IN
         /\ flow' = Seen(RecAddr, v)
         /\ rd' = v
         /\ rec_vol' = IF v = Exc THEN rec_vol ELSE v
         /\ IF v >= 0 /\ NeedsResume(saved_target, v)
            THEN /\ pc' = "disp_start"
                 /\ caller' = "recovery"
                 /\ address' = RecAddr
                 /\ liters_to_dispense' = Remaining(saved_target, v)
                 /\ UNCHANGED <<ri, start_vol, target_vol, last_vol,
                                current_vol, consecutive_errors, result,
                                sawAbsent, absentRun>>
            ELSE RecNext
    /\ UNCHANGED <<store, valve, CMD_QUEUE, saved_target, log>>
    /\ UNCHANGED <<cmd, sup>>
    /\ CtlStep

\* ------------------------------------------------ meter.py dispense_batch
Failed(reason, dispensed) ==
    [status |-> "failed", reason |-> reason, dispensed |-> dispensed,
     final_reading |-> None]

Completed(dispensed, final) ==
    [status |-> "completed", reason |-> "none", dispensed |-> dispensed,
     final_reading |-> final]

\* Mutant: a batch is of one litre at least.
TargetOf_AtLeastOne(start, liters) ==
    start + (IF liters < 1 THEN 1 ELSE liters)

\* target_vol = start_vol + liters_to_dispense
TargetOf(start, liters) == start + liters

\* Mutant: the target counts as reached one litre early.
TargetReached_Early(current, target) == current + 1 >= target

\* if current_vol >= target_vol
TargetReached(current, target) == current >= target

\* Mutant: `>` for `>=`, a sixth absent poll is needed.
TooManyErrors_Gt(errors) == errors > max_errors

\* if consecutive_errors >= max_errors
TooManyErrors(errors) == errors >= max_errors

\* An exception leaving dispense_batch lands in the caller's except branch:
\* Recovery goes on to the next address, the queue to the next command.
Raise ==
    IF caller = "recovery"
    THEN RecNext
    ELSE /\ pc' = "cmd_pop"
         /\ ClearFrame
         /\ UNCHANGED ri

\* Mutant: a failed initial read closes the valve before returning.
DispStartRead_ClosesValve ==
    /\ pc = "disp_start"
    /\ \E k \in 0..retries, r \in ReadOutcomes(address) :
         LET v == get_valid_volume(ReadSeq(k, r)) IN
         /\ flow' = Seen(address, v)
         /\ rd' = v
         /\ CASE v = Exc -> Raise /\ UNCHANGED <<valve, log>>
              [] v = None ->
                   /\ close_valve(address)
                   /\ result' = Failed("initial_read_error", 0)
                   /\ pc' = "disp_ret"
                   /\ sawAbsent' = TRUE
                   /\ UNCHANGED <<ri, caller, address, liters_to_dispense,
                                  start_vol, target_vol, last_vol,
                                  current_vol, consecutive_errors, absentRun>>
              [] OTHER ->
                   /\ start_vol' = v
                   /\ pc' = "disp_persist"
                   /\ sawAbsent' = (k > 0)
                   /\ UNCHANGED <<ri, caller, address, liters_to_dispense,
                                  target_vol, last_vol, current_vol,
                                  consecutive_errors, result, absentRun,
                                  valve, log>>
    /\ UNCHANGED <<store, CMD_QUEUE, saved_target, rec_vol>>
    /\ UNCHANGED <<cmd, sup>>
    /\ CtlStep

\* 1. Get Initial Reading
DispStartRead ==
    /\ pc = "disp_start"
    /\ \E k \in 0..retries, r \in ReadOutcomes(address) :
         LET v == get_valid_volume(ReadSeq(k, r)) IN
         /\ flow' = Seen(address, v)
         /\ rd' = v
         /\ CASE v = Exc -> Raise
              [] v = None ->
                   /\ result' = Failed("initial_read_error", 0)
                   /\ pc' = "disp_ret"
                   /\ sawAbsent' = TRUE
                   /\ UNCHANGED <<ri, caller, address, liters_to_dispense,
                                  start_vol, target_vol, last_vol,
                                  current_vol, consecutive_errors, absentRun>>
              [] OTHER ->
                   /\ start_vol' = v
                   /\ pc' = "disp_persist"
                   /\ sawAbsent' = (k > 0)
                   /\ UNCHANGED <<ri, caller, address, liters_to_dispense,
                                  target_vol, last_vol, current_vol,
                                  consecutive_errors, result, absentRun>>
    /\ UNCHANGED <<store, valve, CMD_QUEUE, saved_target, rec_vol, log>>
    /\ UNCHANGED <<cmd, sup>>
    /\ CtlStep

\* Mutant: the target is computed but not saved before the valve opens.
DispPersist_NoSave ==
    /\ pc = "disp_persist"
    /\ target_vol' = TargetOf(start_vol, liters_to_dispense)
    /\ pc' = "disp_open"
    /\ UNCHANGED <<persist, CMD_QUEUE, rec, caller, address,
                   liters_to_dispense, start_vol, last_vol, current_vol,
                   consecutive_errors, result, hist>>
    /\ UNCHANGED <<cmd, sup>>
    /\ CtlStep

\* 2. Calculate Target   3. SAVE TARGET (Persistence)
DispPersist ==
    /\ pc = "disp_persist"
    /\ target_vol' = TargetOf(start_vol, liters_to_dispense)
    /\ Save(address, target_vol')
    /\ pc' = "disp_open"
    /\ UNCHANGED <<flow, valve, CMD_QUEUE, rec, caller, address,
                   liters_to_dispense, start_vol, last_vol, current_vol,
                   consecutive_errors, result, rd, sawAbsent, absentRun>>
    /\ UNCHANGED <<cmd, sup>>
    /\ CtlStep

\* 4. Open Valve, and the initialisation of the monitoring loop
DispOpenValve ==
    /\ pc = "disp_open"
    /\ open_valve(address)
    /\ last_vol' = start_vol
    /\ consecutive_errors' = 0
    /\ pc' = "disp_monitor"
    /\ UNCHANGED <<store, flow, CMD_QUEUE, rec, caller, address,
                   liters_to_dispense, start_vol, target_vol, current_vol,
                   result, rd, sawAbsent, absentRun>>
    /\ UNCHANGED <<cmd, sup>>
    /\ CtlStep

\* Mutant: a successful read leaves the error counter as it is.
DispMonitor_NoReset ==
    /\ pc = "disp_monitor"
    /\ \E v \in ReadOutcomes(address) :
         /\ flow' = Seen(address, v)
         /\ rd' = v
         /\ CASE v = Exc -> Raise
              [] v = None ->
                   /\ consecutive_errors' = consecutive_errors + 1
                   /\ pc' = IF TooManyErrors(consecutive_errors')
                            THEN "disp_close_fail" ELSE "disp_monitor"
                   /\ sawAbsent' = TRUE
                   /\ absentRun' = absentRun + 1
                   /\ UNCHANGED <<ri, caller, address, liters_to_dispense,
                                  start_vol, target_vol, last_vol,
                                  current_vol, result>>
              [] OTHER ->
                   /\ consecutive_errors' = consecutive_errors
                   /\ last_vol' = v
                   /\ current_vol' = v
                   /\ pc' = IF TargetReached(v, target_vol)
                            THEN "disp_close_ok" ELSE "disp_monitor"
                   /\ absentRun' = 0
                   /\ UNCHANGED <<ri, caller, address, liters_to_dispense,
                                  start_vol, target_vol, result, sawAbsent>>
    /\ UNCHANGED <<store, valve, CMD_QUEUE, saved_target, rec_vol, log>>
    /\ UNCHANGED <<cmd, sup>>
    /\ CtlStep

\* 5. One pass of the monitoring loop, up to the close_valve it decides on.
DispMonitor ==
    /\ pc = "disp_monitor"
    /\ \E v \in ReadOutcomes(address) :
         /\ flow' = Seen(address, v)
         /\ rd' = v
         /\ CASE v = Exc -> Raise
              [] v = None ->
                   /\ consecutive_errors' = consecutive_errors + 1
                   /\ pc' = IF TooManyErrors(consecutive_errors')
                            THEN "disp_close_fail" ELSE "disp_monitor"
                   /\ sawAbsent' = TRUE
                   /\ absentRun' = absentRun + 1
                   /\ UNCHANGED <<ri, caller, address, liters_to_dispense,
                                  start_vol, target_vol, last_vol,
                                  current_vol, result>>
              [] OTHER ->
                   /\ consecutive_errors' = 0
                   /\ last_vol' = v
                   /\ current_vol' = v
                   /\ pc' = IF TargetReached(v, target_vol)
                            THEN "disp_close_ok" ELSE "disp_monitor"
                   /\ absentRun' = 0
                   /\ UNCHANGED <<ri, caller, address, liters_to_dispense,
                                  start_vol, target_vol, result, sawAbsent>>
    /\ UNCHANGED <<store, valve, CMD_QUEUE, saved_target, rec_vol, log>>
    /\ UNCHANGED <<cmd, sup>>
    /\ CtlStep

\* Mutant: the failure path clears the debt as the success path does.
DispCloseFail_ClearsDebt ==
    /\ pc = "disp_close_fail"
    /\ valve' = [valve EXCEPT ![address] = "closed"]
    /\ store' = save_target_reading(store, address, last_vol)
    /\ log' = log \o <<Ev("close", address, 0), Ev("save", address, last_vol)>>
    /\ result' = Failed("meter_timeout", last_vol - start_vol)
    /\ pc' = "disp_ret"
    /\ UNCHANGED <<flow, CMD_QUEUE, rec, caller, address,
                   liters_to_dispense, start_vol, target_vol, last_vol,
                   current_vol, consecutive_errors, rd, sawAbsent, absentRun>>
    /\ UNCHANGED <<cmd, sup>>
    /\ CtlStep

\* consecutive_errors >= max_errors: close the valve, return failed.
DispCloseFail ==
    /\ pc = "disp_close_fail"
    /\ close_valve(address)
    /\ result' = Failed("meter_timeout", last_vol - start_vol)
    /\ pc' = "disp_ret"
    /\ UNCHANGED <<store, flow, CMD_QUEUE, rec, caller, address,
                   liters_to_dispense, start_vol, target_vol, last_vol,
                   current_vol, consecutive_errors, rd, sawAbsent, absentRun>>
    /\ UNCHANGED <<cmd, sup>>
    /\ CtlStep

\* Target Reached: close the valve.
DispCloseOk ==
    /\ pc = "disp_close_ok"
    /\ close_valve(address)
    /\ pc' = "disp_clear"
    /\ UNCHANGED <<store, flow, CMD_QUEUE, rec, frame, rd, sawAbsent,
                   absentRun>>
    /\ UNCHANGED <<cmd, sup>>
    /\ CtlStep

\* Mutant: the target, not the reading reached, is saved on completion.
DispClearDebt_KeepTarget ==
    /\ pc = "disp_clear"
    /\ Save(address, target_vol)
    /\ result' = Completed(current_vol - start_vol, current_vol)
    /\ pc' = "disp_ret"
    /\ UNCHANGED <<flow, valve, CMD_QUEUE, rec, caller, address,
                   liters_to_dispense, start_vol, target_vol, last_vol,
                   current_vol, consecutive_errors, rd, sawAbsent, absentRun>>
    /\ UNCHANGED <<cmd, sup>>
    /\ CtlStep

\* CLEAR DEBT: save the reading reached, return completed.
DispClearDebt ==
    /\ pc = "disp_clear"
    /\ Save(address, current_vol)
    /\ result' = Completed(current_vol - start_vol, current_vol)
    /\ pc' = "disp_ret"
    /\ UNCHANGED <<flow, valve, CMD_QUEUE, rec, caller, address,
                   liters_to_dispense, start_vol, target_vol, last_vol,
                   current_vol, consecutive_errors, rd, sawAbsent, absentRun>>
    /\ UNCHANGED <<cmd, sup>>
    /\ CtlStep

\* Mutant: the commands that arrived during the dispense are flushed when it
\* returns.
DispReturn_Flush ==
    /\ pc = "disp_ret"
    /\ IF caller = "recovery"
       THEN RecNext
       ELSE /\ pc' = "cmd_report"
            /\ UNCHANGED <<ri, frame, sawAbsent, absentRun>>
    /\ CMD_QUEUE' = <<>>
    /\ arrived' = <<>>
    /\ UNCHANGED <<persist, saved_target, rec_vol, log, rd, reports, sup>>
    /\ CtlStep

\* dispense_batch has returned: Recovery drops the result and goes on to the
\* next address, the queue goes on to its report.
DispReturn ==
    /\ pc = "disp_ret"
    /\ IF caller = "recovery"
       THEN RecNext
       ELSE /\ pc' = "cmd_report"
            /\ UNCHANGED <<ri, frame, sawAbsent, absentRun>>
    /\ UNCHANGED <<persist, CMD_QUEUE, saved_target, rec_vol, log, rd>>
    /\ UNCHANGED <<cmd, sup>>
    /\ CtlStep

\* ------------------------------------------ meter_mqtts.py datacb (producer)
\* Mutant: the MQTT thread serves the command's valve itself, on the bus.
datacb_Direct(cmd_data) ==
    /\ CMD_QUEUE' = Append(CMD_QUEUE, cmd_data)
    /\ arrived' = Append(arrived, cmd_data)
    /\ valve' = [valve EXCEPT ![cmd_data.addr] =
                   IF cmd_data.type = "valve_close" THEN "closed" ELSE "open"]
    /\ UNCHANGED <<store, flow, pc, rec, frame, hist, reports, sup>>
    /\ UNCHANGED <<stepped, bench>>

\* globals.CMD_QUEUE.append(cmd_data), in the MQTT thread.
datacb(cmd_data) ==
    /\ CMD_QUEUE' = Append(CMD_QUEUE, cmd_data)
    /\ arrived' = Append(arrived, cmd_data)
    /\ UNCHANGED <<persist, pc, rec, frame, hist, reports, sup>>
    /\ UNCHANGED <<stepped, bench>>

\* The backend of this scenario sends one command at a time, while the
\* controller is in its steady-state loop.
Arrive ==
    /\ CMD_QUEUE = <<>>
    /\ pc \in {"loop", "cmd_pop", "gsm", "idle", "sleep"}
    /\ \E cmd_data \in Commands : datacb(cmd_data)

\* The backend of QueueSpec sends at any time, whatever the controller does:
\* a payment, a payment whose payload carries no litres, a manual close.
QCommands ==
    { [type |-> "success", addr |-> SLAVE_ADDRESSES[1], litres |-> 1],
      [type |-> "success", addr |-> SLAVE_ADDRESSES[1], litres |-> None],
      [type |-> "valve_close", addr |-> SLAVE_ADDRESSES[1], litres |-> None] }

Enqueue ==
    /\ Len(CMD_QUEUE) < MaxQueue
    /\ \E cmd_data \in QCommands : datacb(cmd_data)

\* ------------------------------------------ main.py process_command_queue
\* A report handed to mqttPublish: its status, and the reason it carries.
Report(status, reason) == [status |-> status, reason |-> reason]

\* Mutant: pop() for pop(0), the newest command is taken.
pop_Last(q) == q[Len(q)]

\* item = CMD_QUEUE.pop(0): the item returned ...
pop(q) == Head(q)

\* ... and the list it leaves.
AfterPop(q) == Tail(q)

\* Mutant: the exception is not caught in the loop body and reaches the
\* except branch of monitor_loop.
QueueError_Escapes == pc' = "crash"

\* except Exception as e: print("Queue Error"), then the next item.
QueueError == pc' = "cmd_pop"

\* if result['status'] == 'completed': dispense_complete, else dispense_failed
\* with result.get('reason').
FinalReport(res) ==
    IF res.status = "completed"
    THEN Report("dispense_complete", "none")
    ELSE Report("dispense_failed", res.reason)

\* while len(CMD_QUEUE) > 0: item = CMD_QUEUE.pop(0) and the dispatch on its
\* type, up to the call of dispense_batch.  `litres > 0` raises on a None,
\* which the except branch of the loop body catches ("Queue Error", the
\* error event of the log); litres <= 0 and an unknown type do nothing.
CmdPop ==
    /\ pc = "cmd_pop"
    /\ IF Len(CMD_QUEUE) = 0
       THEN /\ pc' = "gsm"
            /\ log' = <<>>
            /\ reports' = <<>>
            /\ UNCHANGED <<CMD_QUEUE, arrived, valve, caller, address,
                           liters_to_dispense>>
       ELSE LET item == pop(CMD_QUEUE) IN
            /\ CMD_QUEUE' = AfterPop(CMD_QUEUE)
            /\ arrived' = Tail(arrived)
            /\ CASE item.type = "success" /\ item.litres # None
                                          /\ item.litres > 0 ->
                      /\ reports' = <<Report("dispense_started", "none")>>
                      /\ pc' = "disp_start"
                      /\ caller' = "queue"
                      /\ address' = item.addr
                      /\ liters_to_dispense' = item.litres
                      /\ log' = <<>>
                      /\ UNCHANGED valve
                 [] item.type = "valve_open" ->
                      /\ valve' = [valve EXCEPT ![item.addr] = "open"]
                      /\ log' = <<Ev("open", item.addr, 0)>>
                      /\ reports' = <<Report("valve_force_open", "none")>>
                      /\ pc' = "cmd_pop"
                      /\ UNCHANGED <<caller, address, liters_to_dispense>>
                 [] item.type = "valve_close" ->
                      /\ valve' = [valve EXCEPT ![item.addr] = "closed"]
                      /\ log' = <<Ev("close", item.addr, 0)>>
                      /\ reports' = <<Report("valve_force_closed", "none")>>
                      /\ pc' = "cmd_pop"
                      /\ UNCHANGED <<caller, address, liters_to_dispense>>
                 [] item.type = "success" /\ item.litres = None ->
                      /\ QueueError
                      /\ log' = <<Ev("error", item.addr, 0)>>
                      /\ reports' = <<>>
                      /\ UNCHANGED <<valve, caller, address,
                                     liters_to_dispense>>
                 [] OTHER ->
                      /\ pc' = "cmd_pop"
                      /\ log' = <<>>
                      /\ reports' = <<>>
                      /\ UNCHANGED <<valve, caller, address,
                                     liters_to_dispense>>
    /\ rd' = None
    /\ UNCHANGED sup
    /\ CtlStep
    /\ UNCHANGED <<store, flow, rec, start_vol, target_vol, last_vol,
                   current_vol, consecutive_errors, result, sawAbsent,
                   absentRun>>

\* 3. Report Final Status, then sleep(1) and the next queue item.
CmdReport ==
    /\ pc = "cmd_report"
    /\ reports' = Append(reports, FinalReport(result))
    /\ pc' = "cmd_pop"
    /\ ClearFrame
    /\ log' = <<>>
    /\ rd' = None
    /\ UNCHANGED <<persist, CMD_QUEUE, rec, arrived, sup>>
    /\ CtlStep

\* --------------------------------------- main.py monitor_loop, while True
\* The state a boot starts from: RAM is lost, flash, meter and valve stay;
\* last_alive_tick = time() when main.py is loaded, the watchdog starts anew.
Rebooted ==
    /\ pc' = "boot"
    /\ CMD_QUEUE' = <<>>
    /\ log' = <<>>
    /\ rd' = None
    /\ ClearRec /\ ClearFrame
    /\ reports' = <<>>
    /\ arrived' = <<>>
    /\ tick_age' = 0
    /\ wdt_age' = 0
    /\ hung' = FALSE
    /\ stepped' = TRUE
    /\ UNCHANGED <<persist, bench>>

\* 1. Report Alive: last_alive_tick = time(); safe_gc, which resets the
\* device when RAM is low; check_scheduled_restart.
LoopTop ==
    /\ pc = "loop"
    /\ \/ /\ pc' = "cmd_pop"
          /\ tick_age' = 0
          /\ UNCHANGED <<persist, CMD_QUEUE, rec, frame, hist, cmd, wdt_age,
                         hung>>
          /\ CtlStep
       \/ Rebooted

\* 3. Check Connection: machine.reset() when the GSM link is lost.
GsmCheck ==
    /\ pc = "gsm"
    /\ \/ /\ pc' = "idle"
          /\ UNCHANGED <<persist, CMD_QUEUE, rec, frame, hist, cmd, sup>>
          /\ CtlStep
       \/ Rebooted

\* meter.py read_meter_only: get_valid_volume per address; an exception ends
\* the loop over the addresses.
RECURSIVE read_meter_only(_, _, _)
read_meter_only(i, fl, vs) ==
    IF i > Len(SLAVE_ADDRESSES) \/ vs[i] = Exc THEN fl
    ELSE read_meter_only(i + 1,
             IF vs[i] >= 0 THEN [fl EXCEPT ![SLAVE_ADDRESSES[i]] = vs[i]]
             ELSE fl, vs)

\* 4. Upload Idle Data (only if MQTT is connected), then
\* last_alive_tick = time() before the idle sleep.
IdlePoll ==
    /\ pc = "idle"
    /\ \/ UNCHANGED flow
       \/ \E vs \in [1..Len(SLAVE_ADDRESSES) -> (Exc..MaxVol)] :
            /\ \A i \in DOMAIN vs : vs[i] \in ReadOutcomes(SLAVE_ADDRESSES[i])
            /\ flow' = read_meter_only(1, flow, vs)
    /\ tick_age' = 0
    /\ pc' = "sleep"
    /\ UNCHANGED <<store, valve, CMD_QUEUE, rec, frame, hist, cmd, wdt_age,
                   hung>>
    /\ CtlStep

\* sleep(globals.timer) is over: last_alive_tick = time(), and the next pass
\* of the loop.
IdleWake ==
    /\ pc = "sleep"
    /\ tick_age' = 0
    /\ pc' = "loop"
    /\ UNCHANGED <<persist, CMD_QUEUE, rec, frame, hist, cmd, wdt_age, hung>>
    /\ CtlStep

\* An exception leaves a step of the loop body (safe_gc and
\* check_scheduled_restart, gsmCheckStatus, mqtt.status(), the sleep): the
\* except branch of monitor_loop logs it and sleeps 5 s ...
LoopCrash ==
    /\ pc \in {"loop", "gsm", "idle", "sleep"}
    /\ pc' = "crash"
    /\ UNCHANGED <<persist, CMD_QUEUE, rec, frame, hist, cmd, sup>>
    /\ CtlStep

\* Mutant: the except branch goes on with the next pass of the loop.
CrashReset_Retry ==
    /\ pc = "crash"
    /\ pc' = "loop"
    /\ UNCHANGED <<persist, CMD_QUEUE, rec, frame, hist, cmd, sup>>
    /\ CtlStep

\* ... and then machine.reset().
CrashReset ==
    /\ pc = "crash"
    /\ Rebooted

\* ------------------------------------------- main.py supervisor_thread
Min(a, b) == IF a < b THEN a ELSE b

\* Ages past the first pass that finds the signal too old are not told apart.
AgeCap == HungLimit + PollInterval

\* Mutant: `<=` for `<`, a signal exactly 1200 s old still counts as alive.
Alive_Le(age) == age <= HungLimit

\* Mutant: the supervisor feeds whatever the signal's age.
Alive_Always(age) == age >= 0

\* if (time() - last_alive_tick) < 1200
Alive(age) == age < HungLimit

\* One pass of the supervisor's loop: feed the watchdog when the controller
\* reported alive recently, else withhold; then sleep(5), during which the
\* signal and the watchdog age.  The hardware has not reset the device yet.
SupervisorPoll ==
    /\ wdt_age < WdtTimeout
    /\ hung' = ~Alive(tick_age)
    /\ wdt_age' = (IF Alive(tick_age) THEN 0 ELSE wdt_age) + PollInterval
    /\ tick_age' = Min(tick_age + PollInterval, AgeCap)
    /\ UNCHANGED <<persist, CMD_QUEUE, pc, rec, frame, hist, cmd>>
    /\ UNCHANGED <<stepped, bench>>

\* The hardware watchdog was not fed for its timeout: it resets the device.
WdtReset ==
    /\ wdt_age >= WdtTimeout
    /\ Rebooted

\* ------------------------------------------------------------ power supply
\* Power is lost and comes back, at any point of the controller's work.
PowerCycle ==
    /\ pc # "boot"
    /\ Rebooted

\* ------------------------------------------------------------------- Next
\* The steps of the controller thread.
Controller ==
    \/ Boot
    \/ RecLoad
    \/ RecInit
    \/ RecCheck
    \/ DispStartRead
    \/ DispPersist
    \/ DispOpenValve
    \/ DispMonitor
    \/ DispCloseFail
    \/ DispCloseOk
    \/ DispClearDebt
    \/ DispReturn
    \/ CmdPop
    \/ CmdReport
    \/ LoopTop
    \/ GsmCheck
    \/ IdlePoll
    \/ IdleWake
    \/ LoopCrash
    \/ CrashReset

Next ==
    \/ Controller
    \/ Arrive
    \/ PowerCycle

Spec == Init /\ [][Next]_vars

\* The controller thread keeps running while it has a step to take.
FairSpec == Spec /\ WF_vars(Controller)

\* The controller with the MQTT thread appending at any time.
QueueNext ==
    \/ Controller
    \/ Enqueue
    \/ PowerCycle

QueueSpec == Init /\ [][QueueNext]_vars

\* The supervised device in real time.  To keep the product with the clock
\* small the supply holds one litre, drawn at the first unit (a dispense
\* beyond it waits on a meter that answers and does not advance), and the
\* backend sends one payment of a litre at a time, at any time.
OneLitre ==
    \A a \in Addrs :
        flow'[a] <= (IF a = SLAVE_ADDRESSES[1] THEN 1 ELSE 0)

Pay ==
    /\ CMD_QUEUE = <<>>
    /\ datacb([type |-> "success", addr |-> SLAVE_ADDRESSES[1], litres |-> 1])

SupNext ==
    \/ Boot /\ OneLitre
    \/ RecLoad /\ OneLitre
    \/ RecInit /\ OneLitre
    \/ RecCheck /\ OneLitre
    \/ DispStartRead /\ OneLitre
    \/ DispPersist /\ OneLitre
    \/ DispOpenValve /\ OneLitre
    \/ DispMonitor /\ OneLitre
    \/ DispCloseFail /\ OneLitre
    \/ DispCloseOk /\ OneLitre
    \/ DispClearDebt /\ OneLitre
    \/ DispReturn /\ OneLitre
    \/ CmdPop /\ OneLitre
    \/ CmdReport /\ OneLitre
    \/ LoopTop /\ OneLitre
    \/ GsmCheck /\ OneLitre
    \/ IdlePoll /\ OneLitre
    \/ IdleWake /\ OneLitre
    \/ LoopCrash /\ OneLitre
    \/ CrashReset /\ OneLitre
    \/ Pay
    \/ SupervisorPoll
    \/ WdtReset

SupSpec == Init /\ [][SupNext]_vars

\* The supervisor thread and the hardware timer keep running, whatever the
\* controller thread does (it may stop anywhere).
FairSupSpec == SupSpec /\ WF_vars(SupervisorPoll) /\ WF_vars(WdtReset)

\* ------------------------------------------------------------ scenarios
\* The meter answers or stays silent, the UART driver does not raise.
NoRaise == rd' # Exc

\* The backend sends payments only, no manual valve command.
Payments == [type : {"success"}, addr : Addrs, litres : 1..MaxLitres]

Purchase ==
    /\ CMD_QUEUE = <<>>
    /\ pc \in {"loop", "cmd_pop", "gsm", "idle", "sleep"}
    /\ \E cmd_data \in Payments : datacb(cmd_data)

\* A device that is paid, dispenses and is reset at any time, while nobody
\* opens a valve by hand and no read raises: a valve that is open outside
\* dispense_batch was left open by a reset during a dispense.
RestartNext ==
    \/ Boot
    \/ RecLoad
    \/ RecInit /\ NoRaise
    \/ RecCheck /\ NoRaise
    \/ DispStartRead /\ NoRaise
    \/ DispPersist
    \/ DispOpenValve
    \/ DispMonitor /\ NoRaise
    \/ DispCloseFail
    \/ DispCloseOk
    \/ DispClearDebt
    \/ DispReturn
    \/ CmdPop
    \/ CmdReport
    \/ LoopTop
    \/ GsmCheck
    \/ IdlePoll
    \/ IdleWake
    \/ LoopCrash
    \/ CrashReset
    \/ Purchase
    \/ PowerCycle

RestartSpec == Init /\ [][RestartNext]_vars

\* The step does not reset the device.
StaysUp == pc' # "boot"

\* A device that stays up after its boot: no reset, no power cycle, no
\* exception in the loop, no read that raises.  A saved target beyond the
\* reading outside dispense_batch was left by a failed / meter_timeout.
\* (At this one boot, of a new device, Recovery finds no target to check.)
DebtNext ==
    \/ Boot
    \/ RecLoad
    \/ RecInit /\ NoRaise
    \/ DispStartRead /\ NoRaise
    \/ DispPersist
    \/ DispOpenValve
    \/ DispMonitor /\ NoRaise
    \/ DispCloseFail
    \/ DispCloseOk
    \/ DispClearDebt
    \/ DispReturn
    \/ CmdPop
    \/ CmdReport
    \/ LoopTop /\ StaysUp
    \/ GsmCheck /\ StaysUp
    \/ IdlePoll
    \/ IdleWake
    \/ Arrive

DebtSpec == Init /\ [][DebtNext]_vars

\* Every read of the meter returns a reading.
ReadOk == rd' >= 0

\* One pass of the supervisor's loop, as SupervisorPoll, with the controller
\* thread scheduled at least once per sleep(5) of the supervisor.
HealthyPoll ==
    /\ stepped
    /\ wdt_age < WdtTimeout
    /\ hung' = ~Alive(tick_age)
    /\ wdt_age' = (IF Alive(tick_age) THEN 0 ELSE wdt_age) + PollInterval
    /\ tick_age' = Min(tick_age + PollInterval, AgeCap)
    /\ stepped' = FALSE
    /\ UNCHANGED <<persist, CMD_QUEUE, pc, rec, frame, hist, cmd>>
    /\ UNCHANGED bench

\* The supervised device with a controller that makes progress: it is
\* scheduled between any two passes of the supervisor, its reads succeed,
\* no exception reaches the loop and the loop itself does not reset.
HealthyNext ==
    \/ Boot /\ OneLitre
    \/ RecLoad /\ OneLitre
    \/ RecInit /\ OneLitre /\ ReadOk
    \/ RecCheck /\ OneLitre /\ ReadOk
    \/ DispStartRead /\ OneLitre /\ ReadOk
    \/ DispPersist /\ OneLitre
    \/ DispOpenValve /\ OneLitre
    \/ DispMonitor /\ OneLitre /\ ReadOk
    \/ DispCloseOk /\ OneLitre
    \/ DispClearDebt /\ OneLitre
    \/ DispReturn /\ OneLitre
    \/ CmdPop /\ OneLitre
    \/ CmdReport /\ OneLitre
    \/ LoopTop /\ OneLitre /\ StaysUp
    \/ GsmCheck /\ OneLitre /\ StaysUp
    \/ IdlePoll /\ OneLitre
    \/ IdleWake /\ OneLitre
    \/ Pay
    \/ HealthyPoll
    \/ WdtReset

HealthySpec == Init /\ [][HealthyNext]_vars

\* =============================================================== the bench
\* ------------------------------------------------- meter.py, the CRC utils
\* Python's ^, | and & on non-negative integers.
RECURSIVE BitXor(_, _)
BitXor(a, b) ==
    IF a = 0 THEN b
    ELSE IF b = 0 THEN a
    ELSE 2 * BitXor(a \div 2, b \div 2) + ((a + b) % 2)

RECURSIVE BitOr(_, _)
BitOr(a, b) ==
    IF a = 0 THEN b
    ELSE IF b = 0 THEN a
    ELSE 2 * BitOr(a \div 2, b \div 2)
         + (IF a % 2 = 1 \/ b % 2 = 1 THEN 1 ELSE 0)

RECURSIVE BitAnd(_, _)
BitAnd(a, b) ==
    IF a = 0 \/ b = 0 THEN 0
    ELSE 2 * BitAnd(a \div 2, b \div 2)
         + (IF a % 2 = 1 /\ b % 2 = 1 THEN 1 ELSE 0)

\* for _ in range(8): if crc & 0x0001: crc >>= 1; crc ^= 0xA001
\*                    else: crc >>= 1
RECURSIVE CrcShift(_, _)
CrcShift(crc, n) ==
    IF n = 0 THEN crc
    ELSE IF BitAnd(crc, 1) # 0
         THEN CrcShift(BitXor(crc \div 2, CrcPoly), n - 1)
         ELSE CrcShift(crc \div 2, n - 1)

\* for byte in data: crc ^= byte, then the eight shifts.
RECURSIVE CrcFrom(_, _, _)
CrcFrom(bytes, i, crc) ==
    IF i > Len(bytes) THEN crc
    ELSE CrcFrom(bytes, i + 1, CrcShift(BitXor(crc, bytes[i]), 8))

calculate_crc(bytes) == CrcFrom(bytes, 1, CrcStart)

\* Mutant: a frame of two bytes is long enough.
verify_crc_Len2(frm) ==
    IF frm = <<>> \/ Len(frm) < 2 THEN FALSE
    ELSE calculate_crc(SubSeq(frm, 1, Len(frm) - 2))
            = BitOr(frm[Len(frm) - 1], frm[Len(frm)] * 256)

\* if not frame or len(frame) < 3: return False
\* received_crc = frame[-2] | (frame[-1] << 8)
\* return calculate_crc(frame[:-2]) == received_crc
verify_crc(frm) ==
    IF frm = <<>> \/ Len(frm) < 3 THEN FALSE
    ELSE calculate_crc(SubSeq(frm, 1, Len(frm) - 2))
            = BitOr(frm[Len(frm) - 1], frm[Len(frm)] * 256)

\* crc = calculate_crc(frame)
\* frame += bytearray([crc & 0xFF, (crc >> 8) & 0xFF])
with_crc(bytes) ==
    LET crc == calculate_crc(bytes) IN
    bytes \o <<BitAnd(crc, 255), BitAnd(crc \div 256, 255)>>

\* One bit of one byte of the frame is inverted on the line.
FlipBit(frm, i, b) == [frm EXCEPT ![i] = BitXor(@, 2 ^ b)]

\* The bytes the bench puts into frames: both ends of the range, single
\* bits, and the codes of the protocol.
ByteSample == {0, 1, 3, 16, 127, 128, 170, 255}

ByteSeqs(n) == UNION {[1..k -> ByteSample] : k \in 0..n}

\* The device is off; a byte sequence is given.
CrcInit ==
    /\ AtBoot
    /\ data \in ByteSeqs(MaxLen)
    /\ wire = <<>>
    /\ line = "idle"
    /\ req = None
    /\ ret = <<>>
    /\ flash = NoFiles

\* The frame is built as build_modbus_request and write_single_register do.
CrcBuild ==
    /\ line = "idle"
    /\ wire' = with_crc(data)
    /\ line' = "intact"
    /\ UNCHANGED <<data, req, ret, flash>>

\* The bytes arrive as they are, with no checksum appended.
CrcRaw ==
    /\ line = "idle"
    /\ wire' = data
    /\ line' = "raw"
    /\ UNCHANGED <<data, req, ret, flash>>

\* One bit of the built frame is inverted before it is verified.
CrcFlip ==
    /\ line = "intact"
    /\ ret = <<>>
    /\ \E i \in 1..Len(wire), b \in 0..7 :
         /\ wire' = FlipBit(wire, i, b)
         /\ line' = IF i <= Len(data) THEN "payload" ELSE "checksum"
    /\ UNCHANGED <<data, req, ret, flash>>

CrcVerify ==
    /\ line # "idle"
    /\ ret = <<>>
    /\ ret' = <<verify_crc(wire)>>
    /\ UNCHANGED <<data, wire, line, req, flash>>

Off == UNCHANGED <<persist, CMD_QUEUE, pc, rec, frame, hist, cmd, sup, stepped>>

CrcNext ==
    \/ CrcBuild /\ Off
    \/ CrcRaw /\ Off
    \/ CrcFlip /\ Off
    \/ CrcVerify /\ Off

CrcSpec == CrcInit /\ [][CrcNext]_vars

\* -------------------------------------------- meter_storage.py, the files
\* Mutant: one file for all the addresses.
TargetFile_Shared(a) == "/flash/mem/target.json"

\* filename = TARGET_DIR + "/target_" + str(address) + ".json"
TargetFile(a) == "/flash/mem/target_" \o ToString(a) \o ".json"

\* if "mem" not in os.listdir("/flash"): os.mkdir(TARGET_DIR)
\* data = {str(address): value}; with open(filename, 'w') as f: json.dump
save_file(fl, a, value) ==
    [dirs |-> IF "mem" \notin fl.dirs THEN fl.dirs \cup {"mem"} ELSE fl.dirs,
     files |-> [f \in DOMAIN fl.files \cup {TargetFile(a)} |->
                  IF f = TargetFile(a) THEN (ToString(a) :> value)
                  ELSE fl.files[f]]]

\* os.stat(filename) raises OSError: return None; else json.load(f) and
\* data.get(str(address)), which is None for a key that is not there.
load_file(fl, a) ==
    IF TargetFile(a) \notin DOMAIN fl.files THEN None
    ELSE LET dict == fl.files[TargetFile(a)] IN
         IF ToString(a) \in DOMAIN dict THEN dict[ToString(a)] ELSE None

\* The values the controller saves: readings and targets.
TargetValues == 0..(MaxVol + MaxLitres)

\* save_target_reading(address, value) is called, on the files and on the
\* store the controller's model keeps in their place.
StoreSave ==
    \E a \in Addrs, v \in TargetValues :
        /\ flash' = save_file(flash, a, v)
        /\ store' = save_target_reading(store, a, v)
        /\ req' = a
        /\ data' = <<v>>
        /\ ret' = <<>>
        /\ UNCHANGED <<wire, line>>

\* load_target_reading(address) is called.
StoreLoad ==
    \E a \in Addrs :
        /\ req' = a
        /\ data' = <<>>
        /\ ret' = <<load_file(flash, a)>>
        /\ UNCHANGED <<flash, store, wire, line>>

StoreOff ==
    UNCHANGED <<flow, valve, CMD_QUEUE, pc, rec, frame, hist, cmd, sup,
                stepped>>

StoreNext ==
    \/ StoreSave /\ StoreOff
    \/ StoreLoad /\ StoreOff

StoreSpec == Init /\ [][StoreNext]_vars

\* ------------------------------------- meter.py read_cumulative_flow
\* Mutant: the first byte of the response is not compared with the address.
read_cumulative_flow_AnyUnit(response, a) ==
    IF response # <<>> /\ Len(response) = 9 /\ verify_crc(response)
    THEN BitOr(response[4] * 256, response[5])
    ELSE None

\* if response and len(response) == 9 and verify_crc(response):
\*     if response[0] == address: return (response[3] << 8) | response[4]
\* return None
read_cumulative_flow(response, a) ==
    IF response # <<>> /\ Len(response) = 9 /\ verify_crc(response)
    THEN IF response[1] = a
         THEN BitOr(response[4] * 256, response[5])
         ELSE None
    ELSE None

\* What a unit answers to "read 2 holding registers": its address, the
\* function code, the byte count and four data bytes, before the checksum.
Answers ==
    {<<u, 3, 4, hi, lo, 0, 0>> : u \in Addrs, hi \in ByteSample,
                                 lo \in ByteSample}

\* The request for address req is about to be sent; a unit will answer.
ReadInit ==
    /\ AtBoot
    /\ req \in Addrs
    /\ data \in Answers
    /\ wire = <<>>
    /\ line = "idle"
    /\ ret = <<>>
    /\ flash = NoFiles

\* The nine bytes of the answer arrive as they were sent.
ReadIntact ==
    /\ line = "idle"
    /\ wire' = with_crc(data)
    /\ line' = "intact"
    /\ UNCHANGED <<data, req, ret, flash>>

\* One bit of the answer is inverted on the line.
ReadFlip ==
    /\ line = "intact"
    /\ ret = <<>>
    /\ \E i \in 1..Len(wire), b \in 0..7 : wire' = FlipBit(wire, i, b)
    /\ line' = "corrupt"
    /\ UNCHANGED <<data, req, ret, flash>>

\* smart_read_modbus gives up waiting: uart.read(9) returns the bytes that
\* are there, fewer than nine ...
ReadShort ==
    /\ line = "idle"
    /\ \E n \in 1..8 : wire' = SubSeq(with_crc(data), 1, n)
    /\ line' = "short"
    /\ UNCHANGED <<data, req, ret, flash>>

\* ... or None, when no byte arrived.
ReadTimeout ==
    /\ line = "idle"
    /\ wire' = <<>>
    /\ line' = "timeout"
    /\ UNCHANGED <<data, req, ret, flash>>

\* read_cumulative_flow returns.
ReadCall ==
    /\ line # "idle"
    /\ ret = <<>>
    /\ ret' = <<read_cumulative_flow(wire, req)>>
    /\ UNCHANGED <<data, wire, line, req, flash>>

\* uart.write, or uart.any() in the wait loop of smart_read_modbus, which no
\* try encloses, raises: the call ends with the driver's exception.
ReadFault ==
    /\ line = "idle"
    /\ line' = "fault"
    /\ ret' = <<Exc>>
    /\ UNCHANGED <<data, wire, req, flash>>

ReadNext ==
    \/ ReadIntact /\ Off
    \/ ReadFlip /\ Off
    \/ ReadShort /\ Off
    \/ ReadTimeout /\ Off
    \/ ReadCall /\ Off
    \/ ReadFault /\ Off

ReadSpec == ReadInit /\ [][ReadNext]_vars

\* ---------------------------------- meter.py dispense_batch, called alone
\* dispense_batch called by a test instead of Recovery or the queue: a new
\* unit, no target saved yet, the test about to make a call.
BatchInit ==
    /\ store = [a \in Addrs |-> None]
    /\ flow = [a \in Addrs |-> 0]
    /\ valve = [a \in Addrs |-> "closed"]
    /\ CMD_QUEUE = <<>>
    /\ pc = "unit"
    /\ ri = 1
    /\ saved_target = None
    /\ rec_vol = None
    /\ caller = "none"
    /\ address = None
    /\ liters_to_dispense = None
    /\ start_vol = None
    /\ target_vol = None
    /\ last_vol = None
    /\ current_vol = None
    /\ consecutive_errors = 0
    /\ result = NoResult
    /\ log = <<>>
    /\ rd = None
    /\ sawAbsent = FALSE
    /\ absentRun = 0
    /\ reports = <<>>
    /\ arrived = <<>>
    /\ tick_age = 0
    /\ wdt_age = 0
    /\ hung = FALSE
    /\ stepped = TRUE
    /\ BenchIdle

\* The state a completed dispense_batch leaves for address a: the reading it
\* completed on is the saved target, the valve was commanded closed.
Settled(a) ==
    /\ store[a] # None
    /\ store[a] = flow[a]
    /\ valve[a] = "closed"

\* dispense_batch(uart, a, litres): any positive number of litres, and zero
\* litres from the state a completed dispense left.
UnitCall ==
    /\ pc = "unit"
    /\ \E a \in Addrs, litres \in 0..MaxLitres :
         /\ litres = 0 => Settled(a)
         /\ address' = a
         /\ liters_to_dispense' = litres
    /\ caller' = "unit"
    /\ pc' = "disp_start"
    /\ log' = <<>>
    /\ rd' = None
    /\ UNCHANGED <<persist, CMD_QUEUE, rec, start_vol, target_vol, last_vol,
                   current_vol, consecutive_errors, result, sawAbsent,
                   absentRun>>
    /\ UNCHANGED <<cmd, sup>>
    /\ CtlStep

\* The test has the dict dispense_batch returned.
UnitReturn ==
    /\ pc = "cmd_report"
    /\ pc' = "unit"
    /\ ClearFrame
    /\ UNCHANGED <<persist, CMD_QUEUE, rec, log, rd>>
    /\ UNCHANGED <<cmd, sup>>
    /\ CtlStep

\* The test has the exception dispense_batch raised (Raise left the frame).
UnitCaught ==
    /\ pc = "cmd_pop"
    /\ pc' = "unit"
    /\ UNCHANGED <<persist, CMD_QUEUE, rec, frame, hist>>
    /\ UNCHANGED <<cmd, sup>>
    /\ CtlStep

BatchNext ==
    \/ UnitCall
    \/ DispStartRead
    \/ DispPersist
    \/ DispOpenValve
    \/ DispMonitor
    \/ DispCloseFail
    \/ DispCloseOk
    \/ DispClearDebt
    \/ DispReturn
    \/ UnitReturn
    \/ UnitCaught

BatchSpec == BatchInit /\ [][BatchNext]_vars

\* ================================================================ claims
Count(op) == Cardinality({i \in 1..Len(log) : log[i].op = op})

Returned == pc \in {"disp_ret", "cmd_report"}

InRecovery == pc \in {"rec_load", "rec_init", "rec_check"} \/ caller = "recovery"

RecTargetLoaded ==
    pc = "rec_check" =>
        /\ saved_target # None
        /\ saved_target = load_target_reading(store, RecAddr)

\* C1: in a dispense_batch run the valve is opened only after
\* save_target_reading(address, start + L): the open command of a run is
\* preceded in the run by that save, and where the run is about to open the
\* valve the persisted target already is start + L.
C1_SaveBeforeOpen ==
    caller # "none" =>
        /\ \A j \in 1..Len(log) :
             log[j].op = "open" =>
                \E i \in 1..(j - 1) :
                   log[i] = Ev("save", address, start_vol + liters_to_dispense)
        /\ pc = "disp_open" =>
             /\ log = <<Ev("save", address, start_vol + liters_to_dispense)>>
             /\ load_target_reading(store, address)
                  = start_vol + liters_to_dispense

C1_Witness ==
    /\ caller # "none"
    /\ pc = "disp_monitor"
    /\ \E j \in 1..Len(log) : log[j] = Ev("open", address, 0)

\* C2: a dispense_batch run in which no meter read was absent never returns
\* failed; when it returns, it returns completed with
\* dispensed = final_reading - start and final_reading >= start + L.
C2_CompletionLaw ==
    (Returned /\ ~sawAbsent) =>
        /\ result.status = "completed"
        /\ result.dispensed = result.final_reading - start_vol
        /\ result.final_reading >= start_vol + liters_to_dispense

C2_Witness ==
    /\ pc = "disp_ret"
    /\ ~sawAbsent
    /\ result.status = "completed"
    /\ result.final_reading > start_vol + liters_to_dispense
    /\ result.dispensed > liters_to_dispense

\* C3: right after dispense_batch returned completed, the persisted target of
\* the address is the returned final_reading, and the last two effects of the
\* run were the valve-close command and then that save.
C3_DebtCleared ==
    (Returned /\ result.status = "completed") =>
        /\ load_target_reading(store, address) = result.final_reading
        /\ Len(log) >= 2
        /\ log[Len(log)] = Ev("save", address, result.final_reading)
        /\ log[Len(log) - 1] = Ev("close", address, 0)

C3_Witness ==
    /\ pc = "disp_ret"
    /\ result.status = "completed"
    /\ result.final_reading > start_vol + liters_to_dispense
    /\ store[address] = result.final_reading

\* C4: once 5 monitoring polls in a row were absent, the run does not poll
\* again: it closes the valve and returns failed / meter_timeout with
\* dispensed = (last reading obtained) - start, the close command having been
\* issued exactly once in the run.
C4_ErrorThreshold ==
    absentRun >= 5 =>
        \/ /\ pc = "disp_close_fail"
           /\ Count("close") = 0
        \/ /\ Returned
           /\ result = Failed("meter_timeout", flow[address] - start_vol)
           /\ Count("close") = 1

C4_Witness ==
    /\ pc = "disp_ret"
    /\ absentRun = 5
    /\ result.reason = "meter_timeout"
    /\ result.dispensed > 0

\* C5: a run past StartRead has saved exactly once when it opens the valve;
\* a run that returned completed saved exactly once more; a run that
\* returned failed / meter_timeout saved nothing more, so the persisted
\* target still is start + L.
C5_PersistCount ==
    caller # "none" =>
        /\ pc = "disp_open" => (Count("save") = 1 /\ Count("open") = 0)
        /\ pc \in {"disp_monitor", "disp_close_fail", "disp_close_ok",
                   "disp_clear"} =>
             /\ Count("save") = 1
             /\ log[1].op = "save"
             /\ log[2].op = "open"
        /\ (Returned /\ result.status = "completed") =>
             /\ Count("save") = 2
             /\ log[1].op = "save"
             /\ log[2].op = "open"
             /\ log[Len(log)].op = "save"
        /\ (Returned /\ result.reason = "meter_timeout") =>
             /\ Count("save") = 1
             /\ log[1].op = "save"
             /\ load_target_reading(store, address)
                  = start_vol + liters_to_dispense

C5_Witness ==
    /\ pc = "disp_ret"
    /\ result.reason = "meter_timeout"
    /\ store[address] = start_vol + liters_to_dispense
    /\ store[address] > flow[address]

\* C6: when the initial get_valid_volume of dispense_batch is absent, the run
\* returns failed / initial_read_error with dispensed = 0, and that step
\* issues no valve command and changes no persisted target.
C6_InitialReadFailure ==
    /\ []((Returned /\ result.reason = "initial_read_error") =>
            /\ result = Failed("initial_read_error", 0)
            /\ log = <<>>)
    /\ [][(pc = "disp_start" /\ rd' = None /\ pc' # "boot") =>
            /\ pc' = "disp_ret"
            /\ result' = Failed("initial_read_error", 0)
            /\ store' = store
            /\ valve' = valve
            /\ log' = log]_vars

C6_Witness ==
    /\ pc = "disp_ret"
    /\ result.reason = "initial_read_error"
    /\ caller = "queue"
    /\ store[address] # None
    /\ valve[address] = "open"

\* C7: in Recovery, for an address whose persisted target T is present and
\* whose live read gives C < T, the next step calls dispense_batch for that
\* address with T - C litres, the command queue not being touched; when that
\* dispense returns completed the persisted target is the final reading.
C7_RecoveryResume ==
    /\ []RecTargetLoaded
    /\ [][(pc = "rec_check" /\ rd' >= 0 /\ saved_target > rd') =>
            /\ pc' = "disp_start"
            /\ caller' = "recovery"
            /\ address' = RecAddr
            /\ liters_to_dispense' = saved_target - rd'
            /\ CMD_QUEUE' = CMD_QUEUE
            /\ store' = store]_vars
    /\ []((caller = "recovery" /\ pc = "disp_ret"
                               /\ result.status = "completed") =>
            load_target_reading(store, address) = result.final_reading)

C7_Witness ==
    /\ caller = "recovery"
    /\ pc = "disp_ret"
    /\ result.status = "completed"
    /\ CMD_QUEUE = <<>>
    /\ liters_to_dispense = saved_target - rec_vol
    /\ result.final_reading > saved_target
    /\ store[address] = result.final_reading

\* C8: in Recovery, an address without persisted record is read; a reading
\* is saved as its target and no valve command is issued; without a reading
\* nothing is saved and the record stays absent, and an absent record always
\* leads Recovery into this initialisation.
C8_RecoveryInit ==
    /\ [](pc = "rec_init" => load_target_reading(store, RecAddr) = None)
    /\ [][(pc = "rec_init" /\ pc' # "boot") =>
            /\ valve' = valve
            /\ pc' = "rec_load"
            /\ rd' >= 0 =>
                 /\ store' = [store EXCEPT ![RecAddr] = rd']
                 /\ log' = <<Ev("save", RecAddr, rd')>>
            /\ rd' < 0 => (store' = store /\ log' = <<>>)]_vars
    /\ [][(pc = "rec_load" /\ ri <= Len(SLAVE_ADDRESSES) /\ pc' # "boot"
                           /\ load_target_reading(store, RecAddr) = None) =>
            pc' = "rec_init"]_vars

C8_Witness ==
    /\ pc = "rec_load"
    /\ ri = 2
    /\ saved_target = None
    /\ rd > 0
    /\ store[SLAVE_ADDRESSES[1]] = rd
    /\ log = <<Ev("save", SLAVE_ADDRESSES[1], rd)>>

\* C9: in Recovery, for an address whose persisted target is present and not
\* above the live reading, the step issues no valve command, saves nothing
\* and starts no dispense: it goes on to the next address.
C9_RecoveryClean ==
    /\ []RecTargetLoaded
    /\ [][(pc = "rec_check" /\ rd' >= 0 /\ saved_target <= rd') =>
            /\ store' = store
            /\ valve' = valve
            /\ log' = <<>>
            /\ caller' = "none"
            /\ pc' = "rec_load"
            /\ ri' = ri + 1]_vars

C9_Witness ==
    /\ pc = "rec_load"
    /\ ri = 2
    /\ saved_target >= 0
    /\ rd = rec_vol
    /\ saved_target < rec_vol
    /\ log = <<>>

IsPrefix(q, r) == Len(q) <= Len(r) /\ \A i \in 1..Len(q) : r[i] = q[i]

\* A step of the running device, not a reset.
Running == pc' # "boot"

\* The step takes a command off CMD_QUEUE / appends one to it.
PopStep == Running /\ Len(CMD_QUEUE') < Len(CMD_QUEUE)

PushStep == Len(CMD_QUEUE') > Len(CMD_QUEUE)

InDispense ==
    pc \in {"disp_start", "disp_persist", "disp_open", "disp_monitor",
            "disp_close_fail", "disp_close_ok", "disp_clear", "disp_ret",
            "cmd_report"}

\* C11: whatever the interleaving of datacb's appends with the controller's
\* pops, CMD_QUEUE holds exactly the commands that arrived and were not yet
\* popped, in arrival order; an append puts the new command behind those
\* waiting and a pop hands the controller the oldest one and removes only
\* it: nothing is reordered, duplicated or lost.
C11_QueueFIFO ==
    /\ [](CMD_QUEUE = arrived)
    /\ [][PushStep =>
            /\ Len(CMD_QUEUE') = Len(CMD_QUEUE) + 1
            /\ IsPrefix(CMD_QUEUE, CMD_QUEUE')
            /\ CMD_QUEUE' = arrived']_vars
    /\ [][PopStep =>
            /\ pop(CMD_QUEUE) = Head(arrived)
            /\ AfterPop(CMD_QUEUE) = Tail(arrived)
            /\ CMD_QUEUE' = Tail(arrived)]_vars

C11_Witness ==
    /\ caller = "queue"
    /\ pc = "disp_monitor"
    /\ reports = <<Report("dispense_started", "none")>>
    /\ Len(CMD_QUEUE) = 2
    /\ CMD_QUEUE[1] # CMD_QUEUE[2]

\* C12: the controller pops a command only between two commands, never
\* while one is being processed; from the pop of a payment to the end of its
\* dispense_batch the queue only grows, and while that dispense is in
\* Monitoring no step touches a valve or publishes a report, and Monitoring
\* is left only by the dispense ending (its close, or an exception into the
\* caller's except branch): a valve_close that arrived meanwhile waits.
C12_Serialised ==
    /\ [][PopStep => (pc = "cmd_pop" /\ caller = "none")]_vars
    /\ [][(InDispense /\ Running) => IsPrefix(CMD_QUEUE, CMD_QUEUE')]_vars
    /\ [][(pc = "disp_monitor" /\ Running) =>
            /\ valve' = valve
            /\ reports' = reports
            /\ pc' \in {"disp_monitor", "disp_close_ok", "disp_close_fail",
                        "cmd_pop", "rec_load"}]_vars

C12_Witness ==
    /\ caller = "queue"
    /\ pc = "disp_monitor"
    /\ valve[address] = "open"
    /\ Len(CMD_QUEUE) >= 1
    /\ CMD_QUEUE[1].type = "valve_close"
    /\ CMD_QUEUE[1].addr = address

\* C18: after a boot the controller's first step enters Recovery at the first
\* address; Recovery is left only from behind the last address, into the
\* loop, and is not entered again before the next boot; from the boot to the
\* end of Recovery (a resumed dispense included) no command is popped: those
\* arriving meanwhile wait in CMD_QUEUE in arrival order.
C18_RecoveryFirst ==
    /\ [][(pc = "boot" /\ Running) =>
            (pc' = "rec_load" /\ ri' = 1 /\ CMD_QUEUE' = CMD_QUEUE)]_vars
    /\ [][(InRecovery /\ Running) =>
            /\ IsPrefix(CMD_QUEUE, CMD_QUEUE')
            /\ CMD_QUEUE' = arrived'
            /\ ~InRecovery' =>
                 /\ pc = "rec_load"
                 /\ ri = Len(SLAVE_ADDRESSES) + 1
                 /\ pc' = "loop"]_vars
    /\ [][(~InRecovery /\ pc # "boot" /\ Running) => ~InRecovery']_vars

C18_Witness ==
    /\ caller = "recovery"
    /\ pc = "disp_monitor"
    /\ valve[address] = "open"
    /\ Len(CMD_QUEUE) = 2
    /\ CMD_QUEUE[1].type = "valve_close"
    /\ CMD_QUEUE[2].type = "success"

\* A queued command whose processing raises: a payment whose litres is None.
Malformed(c) == c.type = "success" /\ c.litres = None

\* C19: when the command popped is malformed, the step drops exactly that
\* command: the except branch runs (its error is the step's only effect), no
\* valve, target or report changes, no dispense starts, and the controller
\* stays in the drain loop with the commands behind it untouched, in order.
C19_MalformedDropped ==
    [][(PopStep /\ Malformed(Head(CMD_QUEUE))) =>
         /\ pc' = "cmd_pop"
         /\ CMD_QUEUE' = Tail(CMD_QUEUE)
         /\ log' = <<Ev("error", Head(CMD_QUEUE).addr, 0)>>
         /\ reports' = <<>>
         /\ caller' = "none"
         /\ UNCHANGED <<store, valve, flow>>]_vars

C19_Witness ==
    /\ pc = "cmd_pop"
    /\ log = <<Ev("error", SLAVE_ADDRESSES[1], 0)>>
    /\ Len(CMD_QUEUE) = 2
    /\ CMD_QUEUE[1].type = "valve_close"
    /\ ~Malformed(CMD_QUEUE[2])


\* ------------------------------------------ bus, supervisor, loop, reports
\* The step is a pass of the supervisor's loop: only it lets time pass.
SupStep == tick_age' > tick_age \/ wdt_age' > wdt_age

\* The step used the serial bus: a valve command went out or a meter was read.
BusStep == valve' # valve \/ flow' # flow \/ (rd' # rd /\ rd' # None)

\* C13: a step of the MQTT thread (it appends to CMD_QUEUE) or of the
\* supervisor uses no driver operation: valves, meters, the target store and
\* the controller's position and frame stay as they are, so the bus is used
\* by controller steps only; and while a dispense is in progress every valve
\* command and save concerns its address only.
C13_BusOwnership ==
    /\ [][(PushStep \/ SupStep) =>
            /\ ~BusStep
            /\ UNCHANGED <<persist, pc, rec, frame, log, rd>>]_vars
    /\ [][(caller # "none" /\ caller' # "none" /\ Running) =>
            /\ address' = address
            /\ caller' = caller
            /\ \A a \in Addrs \ {address} :
                 valve'[a] = valve[a] /\ store'[a] = store[a]]_vars

C13_Witness ==
    /\ caller = "queue"
    /\ pc = "disp_monitor"
    /\ valve[address] = "open"
    /\ Len(CMD_QUEUE) = 1
    /\ wdt_age = PollInterval
    /\ tick_age > PollInterval

\* C14 (as stated): once the valve is open, Monitoring is left only by a read
\* that reached the target or by the fifth absent read in a row (an exception
\* raised by the read apart); nothing else of the system, the watchdog
\* included, ends the run.
C14_NoExternalCancel ==
    [][(pc = "disp_monitor" /\ rd' # Exc) =>
         pc' \in {"disp_monitor", "disp_close_ok", "disp_close_fail"}]_vars

\* C15: a pass of the supervisor feeds the watchdog if and only if the
\* LivenessSignal is younger than 1200 s; a fed watchdog is 5 s old at the
\* next pass, short of its 15 s, so the watchdog expires, and resets the
\* device, only after passes that found the signal 1200 s old or older.
C15_FeedRule ==
    /\ [][SupStep =>
            /\ (wdt_age' = PollInterval) <=> (tick_age < HungLimit)
            /\ hung' <=> (tick_age >= HungLimit)
            /\ tick_age >= HungLimit => wdt_age' = wdt_age + PollInterval]_vars
    /\ [](wdt_age >= WdtTimeout => hung)
    /\ [](~hung => wdt_age <= PollInterval /\ PollInterval < WdtTimeout)

C15_Witness ==
    /\ hung
    /\ wdt_age = WdtTimeout
    /\ tick_age >= HungLimit
    /\ pc = "disp_monitor"

\* C16: the supervisor never writes the LivenessSignal: its passes only let
\* it age; and once the signal is 1200 s old, the controller updates it after
\* all or, the controller being stuck, the supervisor withholds the feed and
\* the hardware resets the device.
C16_Escalation ==
    /\ [][SupStep =>
            tick_age' = Min(tick_age + PollInterval, AgeCap)]_vars
    /\ [][(tick_age >= HungLimit /\ tick_age' < HungLimit) =>
            \/ pc' = "boot"
            \/ pc \in {"loop", "idle", "sleep"}]_vars
    /\ (tick_age >= HungLimit) ~> (tick_age = 0)

C16_Witness ==
    /\ hung
    /\ wdt_age = WdtTimeout
    /\ pc = "gsm"

\* C17: an exception that left a step of the loop body is not retried: from
\* the except branch of monitor_loop the next step of the controller is the
\* reset; until then it runs no pass of the loop, uses no bus and pops no
\* command, and the except branch is entered from the loop body only.
C17_FatalLoopFault ==
    /\ [][pc = "crash" =>
            /\ pc' \in {"crash", "boot"}
            /\ UNCHANGED <<persist, log, rd>>
            /\ IsPrefix(CMD_QUEUE, CMD_QUEUE') \/ pc' = "boot"]_vars
    /\ [][(pc # "crash" /\ pc' = "crash") =>
            /\ pc \in {"loop", "gsm", "idle", "sleep"}
            /\ UNCHANGED <<persist, CMD_QUEUE, frame>>]_vars

C17_Witness ==
    /\ pc = "crash"
    /\ Len(CMD_QUEUE) = 1
    /\ \E a \in Addrs : valve[a] = "open" /\ store[a] > flow[a]

\* C20 (as stated): the processing of a popped payment with litres > 0
\* publishes dispense_started, runs dispense_batch and ends with exactly one
\* terminal report after it: dispense_complete if the dispense returned
\* completed, dispense_failed with the reason otherwise; a payment with
\* litres <= 0 runs no dispense, commands no valve and publishes nothing.
C20_TerminalReport ==
    /\ [][(caller = "queue" /\ caller' = "none" /\ Running) =>
            /\ Len(reports') = 2
            /\ reports'[1] = Report("dispense_started", "none")
            /\ reports'[2] = FinalReport(result)]_vars
    /\ [][(PopStep /\ Head(CMD_QUEUE).type = "success"
                   /\ Head(CMD_QUEUE).litres # None
                   /\ Head(CMD_QUEUE).litres <= 0) =>
            /\ pc' = "cmd_pop"
            /\ caller' = "none"
            /\ reports' = <<>>
            /\ UNCHANGED persist]_vars


\* ------------------------------------------------------ checksum (bench)
\* C21: for every byte sequence d of at least one byte, the frame d followed
\* by calculate_crc(d), low byte first, is accepted by verify_crc; such a
\* frame with one bit of its payload inverted is rejected; and every frame
\* shorter than 3 bytes is rejected.
C21_CrcRoundTrip ==
    /\ (ret # <<>> /\ line = "intact" /\ Len(data) >= 1) => ret = <<TRUE>>
    /\ (ret # <<>> /\ line = "payload") => ret = <<FALSE>>
    /\ (ret # <<>> /\ Len(wire) < 3) => ret = <<FALSE>>

C21_Witness ==
    /\ line = "payload"
    /\ Len(data) = MaxLen
    /\ ret = <<FALSE>>

\* C21 (as stated): the same for every byte sequence d, the empty one
\* included.
C21_AnySequence ==
    /\ (ret # <<>> /\ line = "intact") => ret = <<TRUE>>
    /\ (ret # <<>> /\ line = "payload") => ret = <<FALSE>>
    /\ (ret # <<>> /\ Len(wire) < 3) => ret = <<FALSE>>


\* -------------------------------------------------- target store (bench)
\* C22: a load returns what the last save for its address stored, absent
\* when there was none; and for every address a and values v, w: after
\* save(a, v) load(a) is v, a second save(a, w) leaves load(a) = w, saving v
\* twice leaves the files as saving it once, and save(a, v) changes load(b)
\* for no other address b.
C22_StoreSemantics ==
    /\ \A a \in Addrs : load_file(flash, a) = load_target_reading(store, a)
    /\ ret # <<>> => ret = <<load_target_reading(store, req)>>
    /\ \A a \in Addrs, v \in TargetValues :
         LET once == save_file(flash, a, v) IN
         /\ load_file(once, a) = v
         /\ save_file(once, a, v) = once
         /\ \A w \in TargetValues :
              load_file(save_file(once, a, w), a) = w
         /\ \A b \in Addrs \ {a} : load_file(once, b) = load_file(flash, b)

C22_Witness ==
    /\ load_file(flash, SLAVE_ADDRESSES[1]) = 1
    /\ load_file(flash, SLAVE_ADDRESSES[2]) = None
    /\ req = SLAVE_ADDRESSES[2]
    /\ ret = <<None>>


\* ---------------------------------------------------- meter read (bench)
\* C23: read_cumulative_flow returns a value only for a response of nine
\* bytes whose checksum validates and whose first byte is the requested
\* address, and the value is byte 3 * 256 + byte 4 of it; after a timeout,
\* a short response, a response with an inverted bit and the answer of
\* another unit it returns None, and it raises in none of these cases.
C23_ReadValidation ==
    ret # <<>> =>
        /\ ret[1] >= 0 =>
             /\ Len(wire) = 9
             /\ verify_crc(wire)
             /\ wire[1] = req
             /\ ret[1] = wire[4] * 256 + wire[5]
        /\ line \in {"timeout", "short", "corrupt"} => ret[1] = None
        /\ (line = "intact" /\ data[1] # req) => ret[1] = None
        /\ (line = "intact" /\ data[1] = req) =>
             ret[1] = data[4] * 256 + data[5]
        /\ ret[1] = Exc => line = "fault"

C23_Witness ==
    /\ line = "intact"
    /\ data[1] # req
    /\ verify_crc(wire)
    /\ ret = <<None>>


\* ------------------------------------------------- dispense_batch, alone
\* C24: a call dispense_batch(addr, 0) from the state a completed dispense
\* left computes and saves target == start, has its completion condition
\* satisfied by the first successful monitoring read, fails only after
\* absent reads, and when it returns completed the saved target is the
\* reading it completed on.
C24_ZeroLitres ==
    /\ [][(pc = "disp_persist" /\ liters_to_dispense = 0) =>
            /\ target_vol' = start_vol
            /\ store'[address] = start_vol]_vars
    /\ [][(pc = "disp_monitor" /\ liters_to_dispense = 0 /\ rd' >= 0) =>
            pc' = "disp_close_ok"]_vars
    /\ []((pc = "disp_ret" /\ liters_to_dispense = 0) =>
            /\ result.status = "failed" => sawAbsent
            /\ result.status = "completed" =>
                 /\ load_target_reading(store, address) = result.final_reading
                 /\ result.final_reading = rd
                 /\ valve[address] = "closed")

C24_Witness ==
    /\ pc = "disp_ret"
    /\ liters_to_dispense = 0
    /\ result.status = "completed"
    /\ result.dispensed > 0
    /\ store[address] = result.final_reading


\* ------------------------------------------------- the monitoring loop
Monitoring == pc \in {"disp_monitor", "disp_close_fail", "disp_close_ok"}

\* C25: in the monitoring loop each absent read adds one to
\* consecutive_errors and each successful read sets it to 0, so that it is
\* the number of absent reads in a row the meter gave last, and a result
\* failed / meter_timeout exists only after max_errors absent reads in a row.
C25_ConsecutiveErrors ==
    /\ [][(pc = "disp_monitor" /\ Monitoring' /\ rd' = None) =>
            consecutive_errors' = consecutive_errors + 1]_vars
    /\ [][(pc = "disp_monitor" /\ Monitoring' /\ rd' >= 0) =>
            consecutive_errors' = 0]_vars
    /\ [](Monitoring => consecutive_errors = absentRun)
    /\ [](pc = "disp_close_fail" => absentRun = max_errors)
    /\ [](result.reason = "meter_timeout" => absentRun = max_errors)

\* Four absent reads in a row after a successful read, and no failure.
C25_Witness ==
    /\ pc = "disp_monitor"
    /\ current_vol # None
    /\ current_vol > start_vol
    /\ sawAbsent
    /\ consecutive_errors = max_errors - 1


\* ------------------------------------------------- resume after a crash
\* C26: when Recovery resumes an interrupted batch with persisted target T,
\* the target the resumed dispense_batch persists is T: the resume does not
\* raise the persisted target.
C26_TargetNotRaised ==
    [][(pc = "disp_persist" /\ caller = "recovery" /\ pc' = "disp_open") =>
         /\ store[address] = saved_target
         /\ store'[address] = saved_target]_vars


\* --------------------------------------------------- valves and restarts
\* C27: after a reset during a dispense with the valve open, when Recovery
\* has finished on the next boot the valve has been commanded closed (by
\* Recovery or by a resumed dispense): no valve is open when the loop
\* starts.
C27_ValvesClosedAfterRecovery ==
    [][(pc = "rec_load" /\ pc' = "loop") =>
         \A a \in Addrs : valve'[a] = "closed"]_vars

\* ---------------------------------------------------- outstanding debts
\* C28: while the controller stays up, a persisted target beyond the last
\* reading of its meter (a debt left by failed / meter_timeout) is not
\* replaced by a smaller value.
C28_DebtKept ==
    [][\A a \in Addrs :
         (store[a] > flow[a] /\ StaysUp) => store'[a] >= store[a]]_vars


\* ------------------------------------------------ the healthy controller
\* C29: while the controller thread makes progress (it drains the queue,
\* runs a dispense whose reads succeed, polls the meters), the supervisor
\* finds the LivenessSignal younger than 1200 s at every pass and keeps
\* feeding, and the device is not reset during a dispense with the valve
\* open.
C29_HealthyNotReset ==
    /\ [](tick_age < HungLimit)
    /\ [](~hung)
    /\ [][(pc = "disp_monitor" /\ valve[address] = "open") =>
            pc' # "boot"]_vars

=============================================================================
